---- MODULE Spec2Model ----
(***************************************************************************)
(* Model of manage_cyhy_ops.manageoperators.ManageOperators: the add /     *)
(* remove / check operations on the per-region SSM Parameter Store.        *)
(* Strings whose content the code inspects (usernames, the roster value)   *)
(* are sequences of one-character strings, so that str.split and str.join  *)
(* are modelled by what they do.                                           *)
(***************************************************************************)
EXTENDS Integers, Sequences, FiniteSets, TLC

VARIABLES clients, store, prev, last, nops, run, procs

vars == <<clients, store, prev, last, nops, run, procs>>

----------------------------------------------------------------------------
(* Bounds and input sets *)

\* bound on the number of per-region handler runs of a behaviour: an
\* operation costs one run per region of self.clients
MaxRegionRuns == 4

alice == <<"a","l","i","c","e",".","s","m","i","t","h">>
bob == <<"b","o","b",".","j","o","n","e","s">>
charlie == <<"c","h","a","r","l","i","e",".","b","r","o","w","n">>

Usernames == {alice, bob, charlie}

SshKeys == {"ssh-ed25519 AAAA first.last", "ssh-ed25519 BBBB first.last"}

AllRegions == {"us-east-1", "us-east-2"}

RegionLists == {<<"us-east-1">>, <<"us-east-1", "us-east-2">>}

Comma == ","

----------------------------------------------------------------------------
(* Python list and string primitives used by the code *)

\* ASCII order of the characters that occur in the model
Alphabet == <<",", ".", "a", "b", "c", "d", "e", "f", "g", "h", "i", "j", "k",
              "l", "m", "n", "o", "p", "q", "r", "s", "t", "u", "v", "w", "x",
              "y", "z">>

Ord(c) == CHOOSE i \in 1..Len(Alphabet) : Alphabet[i] = c

RECURSIVE StrLess(_, _)
\* Python's str.__lt__: lexicographic comparison by code point
StrLess(a, b) ==
    IF Len(b) = 0 THEN FALSE
    ELSE IF Len(a) = 0 THEN TRUE
    ELSE IF Head(a) = Head(b) THEN StrLess(Tail(a), Tail(b))
    ELSE Ord(Head(a)) < Ord(Head(b))

RECURSIVE SplitFrom(_, _, _)
\* scan s, cur is the field being collected
SplitFrom(s, sep, cur) ==
    IF Len(s) = 0 THEN <<cur>>
    ELSE IF Head(s) = sep THEN <<cur>> \o SplitFrom(Tail(s), sep, <<>>)
    ELSE SplitFrom(Tail(s), sep, Append(cur, Head(s)))

RECURSIVE SplitDropLast(_, _, _)
\* variant: the field after the last separator is lost
SplitDropLast(s, sep, cur) ==
    IF Len(s) = 0 THEN <<>>
    ELSE IF Head(s) = sep THEN <<cur>> \o SplitDropLast(Tail(s), sep, <<>>)
    ELSE SplitDropLast(Tail(s), sep, Append(cur, Head(s)))

Split_droplast(s, sep) == SplitDropLast(s, sep, <<>>)

\* str.split(sep): "".split(",") is [""]
Split(s, sep) == SplitFrom(s, sep, <<>>)

RECURSIVE Join_trailing(_, _)
\* variant: a separator after every element
Join_trailing(list, sep) ==
    IF Len(list) = 0 THEN <<>>
    ELSE list[1] \o <<sep>> \o Join_trailing(Tail(list), sep)

RECURSIVE Join(_, _)
\* sep.join(list)
Join(list, sep) ==
    IF Len(list) = 0 THEN <<>>
    ELSE IF Len(list) = 1 THEN list[1]
    ELSE list[1] \o <<sep>> \o Join(Tail(list), sep)

\* x in list
ListIn(x, list) == \E i \in 1..Len(list) : list[i] = x

RECURSIVE ListRemove(_, _)
\* list.remove(x): drops the first occurrence
ListRemove(list, x) ==
    IF Len(list) = 0 THEN list
    ELSE IF Head(list) = x THEN Tail(list)
    ELSE <<Head(list)>> \o ListRemove(Tail(list), x)

\* number of occurrences of x in list
Count(x, list) == Cardinality({i \in 1..Len(list) : list[i] = x})

----------------------------------------------------------------------------
(* The SSM client, one parameter at a time.  A parameter is                *)
(* [found, value]; fail injects a hard ClientError.                        *)

NoRoster == [found |-> FALSE, value |-> <<>>]
NoKey == [found |-> FALSE, value |-> ""]

GetParameter(p, fail) ==
    IF fail THEN [exc |-> "ClientError", p |-> p]
    ELSE IF ~p.found THEN [exc |-> "ParameterNotFound", p |-> p]
    ELSE [exc |-> "none", p |-> p]

\* variant: an existing value is replaced whatever Overwrite says
PutParameter_force(p, value, overwrite, fail) ==
    IF fail THEN [exc |-> "ClientError", p |-> p]
    ELSE [exc |-> "none", p |-> [found |-> TRUE, value |-> value]]

PutParameter(p, value, overwrite, fail) ==
    IF fail THEN [exc |-> "ClientError", p |-> p]
    ELSE IF p.found /\ ~overwrite THEN [exc |-> "ParameterAlreadyExists", p |-> p]
    ELSE [exc |-> "none", p |-> [found |-> TRUE, value |-> value]]

DeleteParameter(p, absent, fail) ==
    IF fail THEN [exc |-> "ClientError", p |-> p]
    ELSE IF ~p.found THEN [exc |-> "ParameterNotFound", p |-> p]
    ELSE [exc |-> "none", p |-> absent]

----------------------------------------------------------------------------
(* update_cyhy_ops_users *)

\* variant: the new name is put in front
AddToUsers_front(users, username) ==
    IF ListIn(username, users) THEN users ELSE <<username>> \o users

\* variant: no membership test before the append
AddToUsers_dup(users, username) == Append(users, username)

\* else-branch of "if remove": append unless already listed
AddToUsers(users, username) ==
    IF ListIn(username, users) THEN users ELSE Append(users, username)

\* variant: the first name of the list is dropped, not the given one
RemoveFromUsers_pop(users, username) ==
    IF ~ListIn(username, users) THEN users ELSE Tail(users)

\* then-branch of "if remove": drop the name if listed
RemoveFromUsers(users, username) ==
    IF ~ListIn(username, users) THEN users ELSE ListRemove(users, username)

\* update_msg is assigned only where the list is changed (lines 63 and 72)
UpdateMsgBound(users0, username, remove) ==
    IF remove THEN ListIn(username, users0) ELSE ~ListIn(username, users0)

\* the success message of the put, formatted inside the try block: reading
\* the unassigned local update_msg raises UnboundLocalError, which the
\* "except ClientError" clause does not catch.  ret is -1 when no status is
\* returned.
PutOutcome(put, bound) ==
    IF put.exc # "none" THEN [roster |-> put.p, ret |-> 1, exc |-> "none"]
    ELSE IF bound THEN [roster |-> put.p, ret |-> 0, exc |-> "none"]
    ELSE [roster |-> put.p, ret |-> -1, exc |-> "UnboundLocalError"]

\* variant: the parameter is always written, never deleted
WriteUsers_put(roster, users, bound, fail) ==
    PutOutcome(PutParameter(roster, Join(users, Comma), TRUE, fail), bound)

\* "if len(users) == 0": delete the parameter, else put the joined list
WriteUsers(roster, users, bound, fail) ==
    IF Len(users) = 0
    THEN LET del == DeleteParameter(roster, NoRoster, fail)
         IN  \* ParameterNotFound is a ClientError and is caught as one
             [roster |-> del.p, ret |-> IF del.exc = "none" THEN 0 ELSE 1,
              exc |-> "none"]
    ELSE PutOutcome(PutParameter(roster, Join(users, Comma), TRUE, fail), bound)

\* variant: a failed read of the operators parameter is reported as success
UpdateCyhyOpsUsers_swallow(roster, username, remove, f) ==
    LET get == GetParameter(roster, f = "get")
    IN  IF get.exc = "ClientError"
        THEN [roster |-> roster, ret |-> 0, exc |-> "none"]
        ELSE LET users0 == IF get.exc = "ParameterNotFound" THEN <<>>
                           ELSE Split(get.p.value, Comma)
                 users == IF remove THEN RemoveFromUsers(users0, username)
                          ELSE AddToUsers(users0, username)
             IN  WriteUsers(roster, users,
                            UpdateMsgBound(users0, username, remove),
                            f = "write")

\* variant: a failed read is handled like a missing parameter
UpdateCyhyOpsUsers_ignoreget(roster, username, remove, f) ==
    LET get == GetParameter(roster, f = "get")
        users0 == IF get.exc # "none" THEN <<>>
                  ELSE Split(get.p.value, Comma)
        users == IF remove THEN RemoveFromUsers(users0, username)
                 ELSE AddToUsers(users0, username)
    IN  WriteUsers(roster, users, UpdateMsgBound(users0, username, remove),
                   f = "write")

\* roster is the SSM_CYHY_OPS_USERNAMES parameter of the region, f the
\* injected fault of the region
UpdateCyhyOpsUsers(roster, username, remove, f) ==
    LET get == GetParameter(roster, f = "get")
    IN  IF get.exc = "ClientError"
        THEN [roster |-> roster, ret |-> 1, exc |-> "none"]
        ELSE LET users0 == IF get.exc = "ParameterNotFound" THEN <<>>
                           ELSE Split(get.p.value, Comma)
                 users == IF remove THEN RemoveFromUsers(users0, username)
                          ELSE AddToUsers(users0, username)
             IN  WriteUsers(roster, users,
                            UpdateMsgBound(users0, username, remove),
                            f = "write")

----------------------------------------------------------------------------
(* add_user, remove_user, check_user: one region, then the loop over       *)
(* self.clients.  returned is TRUE when the body executed "return 1", exc  *)
(* names an exception that no except clause of the body catches.           *)

\* variant: ParameterAlreadyExists handled like any other ClientError
AddUserRegion_strict(rs, username, ssh_key, overwrite, f) ==
    LET put == PutParameter(rs.keys[username], ssh_key, overwrite, f = "cred")
    IN  IF put.exc # "none"
        THEN [rs |-> rs, ret |-> 1, returned |-> TRUE, reconciled |-> FALSE,
              exc |-> "none"]
        ELSE LET upd == UpdateCyhyOpsUsers(rs.roster, username, FALSE, f)
             IN  [rs |-> [roster |-> upd.roster,
                          keys |-> [rs.keys EXCEPT ![username] = put.p]],
                  ret |-> upd.ret, returned |-> FALSE, reconciled |-> TRUE,
                  exc |-> upd.exc]

AddUserRegion(rs, username, ssh_key, overwrite, f) ==
    LET put == PutParameter(rs.keys[username], ssh_key, overwrite, f = "cred")
    IN  IF put.exc = "ClientError"
        THEN [rs |-> rs, ret |-> 1, returned |-> TRUE, reconciled |-> FALSE,
              exc |-> "none"]
        ELSE LET upd == UpdateCyhyOpsUsers(rs.roster, username, FALSE, f)
             IN  [rs |-> [roster |-> upd.roster,
                          keys |-> [rs.keys EXCEPT ![username] = put.p]],
                  ret |-> upd.ret, returned |-> FALSE, reconciled |-> TRUE,
                  exc |-> upd.exc]

\* variant: the SSH key is deleted whatever the value of full
RemoveUserRegion_always(rs, username, full, f) ==
    LET del == DeleteParameter(rs.keys[username], NoKey, f = "cred")
    IN  IF del.exc = "ClientError"
        THEN [rs |-> rs, ret |-> 1, returned |-> TRUE, reconciled |-> FALSE,
              exc |-> "none"]
        ELSE LET upd == UpdateCyhyOpsUsers(rs.roster, username, TRUE, f)
             IN  [rs |-> [roster |-> upd.roster,
                          keys |-> [rs.keys EXCEPT ![username] = del.p]],
                  ret |-> upd.ret, returned |-> FALSE, reconciled |-> TRUE,
                  exc |-> upd.exc]

RemoveUserRegion(rs, username, full, f) ==
    LET del == IF full THEN DeleteParameter(rs.keys[username], NoKey, f = "cred")
               ELSE [exc |-> "none", p |-> rs.keys[username]]
    IN  IF del.exc = "ClientError"
        THEN [rs |-> rs, ret |-> 1, returned |-> TRUE, reconciled |-> FALSE,
              exc |-> "none"]
        ELSE LET upd == UpdateCyhyOpsUsers(rs.roster, username, TRUE, f)
             IN  [rs |-> [roster |-> upd.roster,
                          keys |-> [rs.keys EXCEPT ![username] = del.p]],
                  ret |-> upd.ret, returned |-> FALSE, reconciled |-> TRUE,
                  exc |-> upd.exc]

\* variant: a missing operators parameter ends the call with status 1
CheckUserRegion_absent(rs, username, f) ==
    LET key == GetParameter(rs.keys[username], f = "cred")
        get == GetParameter(rs.roster, f = "get")
    IN  IF key.exc = "ClientError"
        THEN [returned |-> TRUE, report |-> "none"]
        ELSE IF get.exc # "none"
        THEN [returned |-> TRUE, report |-> "none"]
        ELSE [returned |-> FALSE,
              report |-> IF ListIn(username, Split(get.p.value, Comma))
                         THEN "is set" ELSE "is not set"]

\* user_status as logged; "none" when no membership line is logged
CheckUserRegion(rs, username, f) ==
    LET key == GetParameter(rs.keys[username], f = "cred")
        get == GetParameter(rs.roster, f = "get")
    IN  IF key.exc = "ClientError"
        THEN [returned |-> TRUE, report |-> "none"]
        ELSE IF get.exc = "ClientError"
        THEN [returned |-> TRUE, report |-> "none"]
        ELSE IF get.exc = "ParameterNotFound"
        THEN [returned |-> FALSE, report |-> "none"]
        ELSE [returned |-> FALSE,
              report |-> IF ListIn(username, Split(get.p.value, Comma))
                         THEN "is set" ELSE "is not set"]

\* accumulator of a loop over self.clients
Acc0(st) == [store |-> st, ret |-> 0, exc |-> "none", visited |-> {},
             reconciled |-> {}, failed |-> {},
             report |-> [r \in AllRegions |-> "none"]]

RECURSIVE AddUserLoop(_, _, _, _, _, _, _)
AddUserLoop(cl, i, acc, username, ssh_key, overwrite, fault) ==
    IF i > Len(cl) THEN acc
    ELSE LET region == cl[i]
             res == AddUserRegion(acc.store[region], username, ssh_key,
                                  overwrite, fault[region])
             acc1 == [acc EXCEPT !.store[region] = res.rs,
                                 !.visited = @ \cup {region},
                                 !.reconciled = IF res.reconciled
                                                THEN @ \cup {region} ELSE @,
                                 !.failed = IF res.ret = 1
                                            THEN @ \cup {region} ELSE @]
         IN  IF res.returned THEN [acc1 EXCEPT !.ret = 1]
             ELSE IF res.exc # "none"
             THEN \* the exception leaves the loop and the handler
                  [acc1 EXCEPT !.ret = -1, !.exc = res.exc]
             ELSE AddUserLoop(cl, i + 1,
                      [acc1 EXCEPT !.ret = IF res.ret # 0 THEN res.ret ELSE @],
                      username, ssh_key, overwrite, fault)

RECURSIVE RemoveUserLoop(_, _, _, _, _, _)
RemoveUserLoop(cl, i, acc, username, full, fault) ==
    IF i > Len(cl) THEN acc
    ELSE LET region == cl[i]
             res == RemoveUserRegion(acc.store[region], username, full,
                                     fault[region])
             acc1 == [acc EXCEPT !.store[region] = res.rs,
                                 !.visited = @ \cup {region},
                                 !.reconciled = IF res.reconciled
                                                THEN @ \cup {region} ELSE @,
                                 !.failed = IF res.ret = 1
                                            THEN @ \cup {region} ELSE @]
         IN  IF res.returned THEN [acc1 EXCEPT !.ret = 1]
             ELSE IF res.exc # "none"
             THEN \* the exception leaves the loop and the handler
                  [acc1 EXCEPT !.ret = -1, !.exc = res.exc]
             ELSE RemoveUserLoop(cl, i + 1,
                      [acc1 EXCEPT !.ret = IF res.ret # 0 THEN res.ret ELSE @],
                      username, full, fault)

RECURSIVE CheckUserLoop_reconcile(_, _, _, _, _)
\* variant: the loop body also runs the reconciliation of remove_user
CheckUserLoop_reconcile(cl, i, acc, username, fault) ==
    IF i > Len(cl) THEN acc
    ELSE LET region == cl[i]
             res == CheckUserRegion(acc.store[region], username, fault[region])
             rem == RemoveUserRegion(acc.store[region], username, FALSE,
                                     fault[region])
             acc1 == [acc EXCEPT !.store[region] = rem.rs,
                                 !.visited = @ \cup {region},
                                 !.report[region] = res.report,
                                 !.failed = IF res.returned
                                            THEN @ \cup {region} ELSE @]
         IN  IF res.returned THEN [acc1 EXCEPT !.ret = 1]
             ELSE CheckUserLoop_reconcile(cl, i + 1, acc1, username, fault)

RECURSIVE CheckUserLoop(_, _, _, _, _)
CheckUserLoop(cl, i, acc, username, fault) ==
    IF i > Len(cl) THEN acc
    ELSE LET region == cl[i]
             res == CheckUserRegion(acc.store[region], username, fault[region])
             acc1 == [acc EXCEPT !.visited = @ \cup {region},
                                 !.report[region] = res.report,
                                 !.failed = IF res.returned
                                            THEN @ \cup {region} ELSE @]
         IN  IF res.returned THEN [acc1 EXCEPT !.ret = 1]
             ELSE CheckUserLoop(cl, i + 1, acc1, username, fault)

----------------------------------------------------------------------------
(* State machine.  store is the Parameter Store of every region; prev is   *)
(* the store before the last operation and last describes that operation   *)
(* (inputs, injected faults, returned status, what was logged).            *)

Faults == {"none", "cred", "get", "write"}

\* one injected hard error per region at most: every handler stops working
\* on a region at its first ClientError
FaultChoices(cl, kinds) ==
    {f \in [AllRegions -> Faults] :
        \A r \in AllRegions :
            IF \E i \in 1..Len(cl) : cl[i] = r THEN f[r] \in kinds
            ELSE f[r] = "none"}

NoOp == [op |-> "none", username |-> <<>>, ssh_key |-> "", flag |-> FALSE,
         fault |-> [r \in AllRegions |-> "none"], ret |-> 0,
         exc |-> "none", visited |-> {}, reconciled |-> {}, failed |-> {},
         report |-> [r \in AllRegions |-> "none"], repeat |-> FALSE]

\* run describes the last run of cli.main: the command, the list results
\* and the status main returned (-1 when an exception left main)
NoRun == [command |-> "none", username |-> <<>>, flag |-> FALSE,
          fault |-> [r \in AllRegions |-> "none"], results |-> <<>>,
          status |-> 0, exc |-> "none"]

\* two invocations running at the same time against one region
Procs == {"p1", "p2"}

\* an invocation that has not started: pc is its position in the handler,
\* snapshot the operators parameter as read, users the list to be written,
\* wseq the rank of its operators write among the writes of the run
IdleProc == [pc |-> "idle", op |-> "none", username |-> <<>>, ssh_key |-> "",
             flag |-> FALSE, fault |-> "none", snapshot |-> NoRoster,
             users |-> <<>>, bound |-> FALSE, ret |-> 0, exc |-> "none",
             wseq |-> 0]

EmptyStore == [r \in AllRegions |->
                  [roster |-> NoRoster, keys |-> [u \in Usernames |-> NoKey]]]

Init ==
    /\ clients \in RegionLists
    /\ store = EmptyStore
    /\ prev = EmptyStore
    /\ last = NoOp
    /\ nops = 0
    /\ run = NoRun
    /\ procs = [p \in Procs |-> IdleProc]

Record(opname, username, ssh_key, flag, fault, acc) ==
    /\ store' = acc.store
    /\ prev' = store
    /\ last' = [op |-> opname, username |-> username, ssh_key |-> ssh_key,
                flag |-> flag, fault |-> fault, ret |-> acc.ret,
                exc |-> acc.exc, visited |-> acc.visited,
                reconciled |-> acc.reconciled, failed |-> acc.failed,
                report |-> acc.report,
                \* the same call as the one before it
                repeat |-> /\ last.op = opname /\ last.username = username
                           /\ last.ssh_key = ssh_key /\ last.flag = flag
                           /\ last.fault = fault]
    /\ nops' = nops + Len(clients)
    /\ UNCHANGED <<clients, run, procs>>

AddUser ==
    /\ nops + Len(clients) <= MaxRegionRuns
    /\ \E username \in Usernames, ssh_key \in SshKeys, overwrite \in BOOLEAN,
          fault \in FaultChoices(clients, Faults) :
          \E acc \in {AddUserLoop(clients, 1, Acc0(store), username, ssh_key,
                                  overwrite, fault)} :
             Record("add", username, ssh_key, overwrite, fault, acc)

RemoveUser ==
    /\ nops + Len(clients) <= MaxRegionRuns
    /\ \E username \in Usernames, full \in BOOLEAN :
          \E fault \in FaultChoices(clients,
                          IF full THEN Faults ELSE Faults \ {"cred"}) :
          \E acc \in {RemoveUserLoop(clients, 1, Acc0(store), username, full,
                                     fault)} :
             Record("remove", username, "", full, fault, acc)

CheckUser ==
    /\ nops + Len(clients) <= MaxRegionRuns
    /\ \E username \in Usernames,
          fault \in FaultChoices(clients, Faults \ {"write"}) :
          \E acc \in {CheckUserLoop(clients, 1, Acc0(store), username, fault)} :
             Record("check", username, "", FALSE, fault, acc)

Next == AddUser \/ RemoveUser \/ CheckUser

Spec == Init /\ [][Next]_vars

----------------------------------------------------------------------------
(* Concurrent invocations of add_user / remove_user on the region          *)
(* RaceRegion.  Every call of the SSM client is one atomic step on the     *)
(* store; what a handler does between two calls is local to it.            *)

RaceRegion == "us-east-1"

RECURSIVE Orderings(_)
\* the lists without repetition over the set S
Orderings(S) ==
    {<<>>} \cup UNION {{<<u>> \o t : t \in Orderings(S \ {u})} : u \in S}

\* a store as sequential add_user calls with the given key leave it: the
\* listed users in the order of the list, each with an SSH key
StoreListing(users, key) ==
    [EmptyStore EXCEPT ![RaceRegion] =
        [roster |-> IF Len(users) = 0 THEN NoRoster
                    ELSE [found |-> TRUE, value |-> Join(users, Comma)],
         keys |-> [u \in Usernames |->
                      IF ListIn(u, users)
                      THEN [found |-> TRUE, value |-> key] ELSE NoKey]]]

InitRace ==
    /\ clients = <<RaceRegion>>
    /\ \E users \in Orderings(Usernames) :
          store = StoreListing(users, CHOOSE k \in SshKeys : TRUE)
    /\ prev = EmptyStore
    /\ last = NoOp
    /\ nops = 0
    /\ run = NoRun
    /\ procs = [p \in Procs |-> IdleProc]

\* number of operators writes done so far in the run
Writes == Cardinality({q \in Procs : procs[q].wseq > 0})

\* the call of add_user or remove_user
Invoke(p) ==
    /\ procs[p].pc = "idle"
    /\ \E op \in {"add", "remove"}, username \in Usernames,
          ssh_key \in SshKeys, flag \in BOOLEAN, f \in Faults :
          /\ op = "remove" => ssh_key = CHOOSE k \in SshKeys : TRUE
          /\ (op = "remove" /\ ~flag) => f # "cred"
          /\ procs' = [procs EXCEPT ![p] =
                [IdleProc EXCEPT !.pc = IF op = "remove" /\ ~flag
                                       THEN "get" ELSE "key",
                                 !.op = op, !.username = username,
                                 !.ssh_key = ssh_key, !.flag = flag,
                                 !.fault = f]]
    /\ UNCHANGED <<clients, store, prev, last, nops, run>>

\* put_parameter of the SSH key (add_user), delete_parameter of the SSH key
\* (remove_user with full)
KeyStep(p) ==
    LET me == procs[p]
        key == store[RaceRegion].keys[me.username]
        res == IF me.op = "add"
               THEN PutParameter(key, me.ssh_key, me.flag, me.fault = "cred")
               ELSE DeleteParameter(key, NoKey, me.fault = "cred")
    IN  /\ me.pc = "key"
        /\ store' = [store EXCEPT ![RaceRegion].keys[me.username] = res.p]
        /\ procs' = [procs EXCEPT ![p] =
              IF res.exc = "ClientError"
              THEN [me EXCEPT !.pc = "done", !.ret = 1]
              ELSE [me EXCEPT !.pc = "get"]]
        /\ UNCHANGED <<clients, prev, last, nops, run>>

\* get_parameter of the operators parameter, then the new list is computed
GetStep(p) ==
    LET me == procs[p]
        get == GetParameter(store[RaceRegion].roster, me.fault = "get")
        users0 == IF get.exc = "ParameterNotFound" THEN <<>>
                  ELSE Split(get.p.value, Comma)
    IN  /\ me.pc = "get"
        /\ procs' = [procs EXCEPT ![p] =
              IF get.exc = "ClientError"
              THEN [me EXCEPT !.pc = "done", !.ret = 1]
              ELSE [me EXCEPT !.pc = "write", !.snapshot = get.p,
                              !.users = IF me.op = "remove"
                                        THEN RemoveFromUsers(users0, me.username)
                                        ELSE AddToUsers(users0, me.username),
                              !.bound = UpdateMsgBound(users0, me.username,
                                                       me.op = "remove")]]
        /\ UNCHANGED <<clients, store, prev, last, nops, run>>

\* delete_parameter or put_parameter of the operators parameter, and the
\* return of the handler
WriteStep(p) ==
    LET me == procs[p]
        res == WriteUsers(store[RaceRegion].roster, me.users, me.bound,
                          me.fault = "write")
    IN  /\ me.pc = "write"
        /\ store' = [store EXCEPT ![RaceRegion].roster = res.roster]
        /\ procs' = [procs EXCEPT ![p] =
              [me EXCEPT !.pc = "done", !.ret = res.ret, !.exc = res.exc,
                         \* ret is 1 when the client call itself failed
                         !.wseq = IF res.ret # 1 THEN Writes + 1 ELSE 0]]
        /\ UNCHANGED <<clients, prev, last, nops, run>>

RaceNext ==
    \E p \in Procs : Invoke(p) \/ KeyStep(p) \/ GetStep(p) \/ WriteStep(p)

SpecRace == InitRace /\ [][RaceNext]_vars

----------------------------------------------------------------------------
(* cli.main: one manager per region of --regions, the same command on      *)
(* every manager, the returned statuses collected in results.  Each        *)
(* manager is a ManageOperators working on its one region.                 *)

\* manager.add_user / remove_user / check_user of the manager of region
Dispatch(command, region, st, username, ssh_key, flag, fault) ==
    IF command = "add"
    THEN AddUserLoop(<<region>>, 1, Acc0(st), username, ssh_key, flag, fault)
    ELSE IF command = "remove"
    THEN RemoveUserLoop(<<region>>, 1, Acc0(st), username, flag, fault)
    ELSE CheckUserLoop(<<region>>, 1, Acc0(st), username, fault)

\* "if True in map(lambda e: e != 0, results)"
ExitStatus(results) ==
    IF \E i \in 1..Len(results) : results[i] # 0 THEN 1 ELSE 0

RECURSIVE MainLoop(_, _, _, _, _, _, _, _, _)
\* "for manager in managers: results.append(manager.<command>(...))"
MainLoop(cl, i, st, results, command, username, ssh_key, flag, fault) ==
    IF i > Len(cl)
    THEN [store |-> st, results |-> results, exc |-> "none",
          status |-> ExitStatus(results)]
    ELSE LET acc == Dispatch(command, cl[i], st, username, ssh_key, flag, fault)
         IN  IF acc.exc # "none"
             THEN \* nothing in main catches the exception
                  [store |-> acc.store, results |-> results, exc |-> acc.exc,
                   status |-> -1]
             ELSE MainLoop(cl, i + 1, acc.store, Append(results, acc.ret),
                           command, username, ssh_key, flag, fault)

Main ==
    /\ nops + Len(clients) <= MaxRegionRuns
    /\ \E command \in {"add", "remove", "list"}, username \in Usernames,
          ssh_key \in SshKeys, flag \in BOOLEAN :
          \E fault \in FaultChoices(clients,
                          IF command = "list" THEN Faults \ {"write"}
                          ELSE IF command = "remove" /\ ~flag
                          THEN Faults \ {"cred"} ELSE Faults) :
             /\ command = "list" => ~flag
             /\ command # "add" => ssh_key = CHOOSE k \in SshKeys : TRUE
             /\ \E m \in {MainLoop(clients, 1, store, <<>>, command, username,
                                    ssh_key, flag, fault)} :
                    /\ store' = m.store
                    /\ run' = [command |-> command, username |-> username,
                               flag |-> flag, fault |-> fault,
                               results |-> m.results, status |-> m.status,
                               exc |-> m.exc]
             /\ prev' = store
             /\ nops' = nops + Len(clients)
             /\ UNCHANGED <<clients, last, procs>>

MainNext == Main

SpecMain == Init /\ [][MainNext]_vars

----------------------------------------------------------------------------
(* Vocabulary of the properties *)

ClientSet == {clients[i] : i \in 1..Len(clients)}

\* the usernames listed by an operators parameter (none when it is absent)
RosterUsers(p) == IF p.found THEN Split(p.value, Comma) ELSE <<>>

IsMember(u, p) == ListIn(u, RosterUsers(p))

\* u is one of the comma-separated entries of the string value, stated on
\* the characters of value
IsEntry(u, value) ==
    \E i \in 1..(Len(value) + 1) :
        LET j == i + Len(u) - 1
        IN  /\ j <= Len(value)
            /\ SubSeq(value, i, j) = u
            /\ (i = 1 \/ value[i - 1] = Comma)
            /\ (j = Len(value) \/ value[j + 1] = Comma)

Sorted(users) ==
    \A i, j \in 1..Len(users) : i < j => ~StrLess(users[j], users[i])

\* users without the name u, order kept
Without(users, u) == SelectSeq(users, LAMBDA x : x # u)

\* the last operation hit no injected hard error in any region
NoHardFailure == \A r \in ClientSet : last.fault[r] = "none"

Mutating == last.op \in {"add", "remove"}

----------------------------------------------------------------------------
(* Properties *)

\* C1 (as stated): after every add/remove the usernames of the persisted
\* operators value are in ascending lexicographic order.
C1_SortedRoster ==
    \A r \in AllRegions : Sorted(RosterUsers(store[r].roster))

\* C1 (amended): the operators value keeps insertion order.  A successful
\* add of a new name appends it at the end, an add of a listed name leaves
\* the list as it was, a successful remove deletes the name in place; adding
\* charlie.brown and then alice.smith gives "charlie.brown,alice.smith".
C1_InsertionOrder ==
    \A r \in ClientSet :
        (Mutating /\ r \in last.reconciled /\ last.fault[r] = "none") =>
            LET before == RosterUsers(prev[r].roster)
                after == RosterUsers(store[r].roster)
                u == last.username
            IN  /\ (last.op = "add" /\ ~ListIn(u, before)) => after = Append(before, u)
                /\ (last.op = "add" /\ ListIn(u, before)) => after = before
                /\ last.op = "remove" => after = Without(before, u)
                /\ (last.op = "add" /\ u = alice /\ prev[r].roster.found
                        /\ prev[r].roster.value = charlie)
                    => store[r].roster.value = charlie \o <<",">> \o alice

C1_Witness ==
    /\ last.op = "add"
    /\ last.username = alice
    /\ store["us-east-1"].roster.found
    /\ store["us-east-1"].roster.value = charlie \o <<",">> \o alice

\* C2: no username occurs more than once in a persisted operators value.
C2_NoDuplicates ==
    \A r \in AllRegions : \A u \in Usernames :
        Count(u, RosterUsers(store[r].roster)) <= 1

\* an add of a name that was already listed went through
C2_Witness ==
    /\ last.op = "add"
    /\ NoHardFailure
    /\ IsMember(last.username, prev["us-east-1"].roster)
    /\ Len(RosterUsers(store["us-east-1"].roster)) >= 2

\* C3: a second add_user(u, key, overwrite=False) directly after the same
\* call, with no store failure in either, changes nothing in the store and
\* leaves u listed exactly once, with its SSH key stored, in every region
\* the call worked on.
C3_AddIdempotent ==
    (last.op = "add" /\ last.repeat /\ ~last.flag /\ NoHardFailure) =>
        /\ store = prev
        /\ \A r \in last.visited :
              /\ Count(last.username, RosterUsers(store[r].roster)) = 1
              /\ store[r].keys[last.username].found

C3_Witness ==
    /\ last.op = "add" /\ last.repeat /\ ~last.flag /\ NoHardFailure
    /\ store = prev
    /\ Len(RosterUsers(store["us-east-1"].roster)) >= 2

\* C4: add_user without overwrite on a user whose SSH key exists and who
\* is already listed returns 0 when no hard store error occurs.
C4_AddExistingReturnsZero ==
    (/\ last.op = "add" /\ ~last.flag /\ NoHardFailure
     /\ \A r \in ClientSet : /\ prev[r].keys[last.username].found
                             /\ IsMember(last.username, prev[r].roster))
        => last.ret = 0

\* C5: remove_user(u, full=False) of a user who is not listed (operators
\* parameter absent, or listing other users only), with no hard store
\* error, leaves the operators parameter unchanged and returns 0.
C5_RemoveAbsentIsNoop ==
    (/\ last.op = "remove" /\ ~last.flag /\ NoHardFailure
     /\ \A r \in ClientSet : ~IsMember(last.username, prev[r].roster))
        => /\ \A r \in ClientSet : store[r].roster = prev[r].roster
           /\ last.ret = 0

\* C6 (as stated): removing the only listed username leaves the operators
\* parameter present with the empty string as value, and no operation ever
\* deletes the parameter.
C6_EmptyStringRoster ==
    \A r \in ClientSet :
        /\ (/\ last.op = "remove" /\ r \in last.reconciled
            /\ last.fault[r] = "none"
            /\ RosterUsers(prev[r].roster) = <<last.username>>)
              => store[r].roster = [found |-> TRUE, value |-> <<>>]
        /\ prev[r].roster.found => store[r].roster.found

\* C6 (amended): when remove_user removes the only listed username and the
\* store reports no hard error, the operators parameter is deleted; a
\* present operators parameter never holds the empty string; and the
\* parameter is deleted by no other operation.
C6_EmptyRosterDeleted ==
    \A r \in AllRegions :
        /\ (/\ last.op = "remove" /\ r \in last.reconciled
            /\ last.fault[r] = "none"
            /\ RosterUsers(prev[r].roster) = <<last.username>>)
              => ~store[r].roster.found
        /\ store[r].roster.found => store[r].roster.value # <<>>
        /\ (prev[r].roster.found /\ ~store[r].roster.found)
              => /\ last.op = "remove"
                 /\ RosterUsers(prev[r].roster) = <<last.username>>

C6_Witness ==
    /\ last.op = "remove"
    /\ RosterUsers(prev["us-east-1"].roster) = <<last.username>>
    /\ ~store["us-east-1"].roster.found

\* C7: when the SSH key write of add_user fails with a hard store error,
\* the operators list of that region is still reconciled (the user becomes
\* listed) and the call returns 1.
C7_AddReconcilesAfterKeyFailure ==
    \A r \in ClientSet :
        (last.op = "add" /\ r \in last.visited /\ last.fault[r] = "cred") =>
            /\ r \in last.reconciled
            /\ IsMember(last.username, store[r].roster)
            /\ last.ret = 1

\* C8 (as stated): check_user returns 1 whenever the operators fetch gives
\* no data, on a hard store error and on a missing parameter alike.
C8_CheckNoRosterReturnsOne ==
    (/\ last.op = "check"
     /\ \E r \in last.visited :
           /\ last.fault[r] # "cred"
           /\ (last.fault[r] = "get" \/ ~store[r].roster.found))
        => last.ret = 1

\* C8 (amended): check_user returns 1 whenever the operators fetch fails
\* with a hard store error, whatever the SSH key lookup found; a missing
\* operators parameter is only logged, and check_user returns 0 unless a
\* fetch hits a hard store error.
C8_CheckStatus ==
    last.op = "check" =>
        /\ (\E r \in last.visited : last.fault[r] = "get") => last.ret = 1
        /\ (\A r \in last.visited : last.fault[r] = "none") => last.ret = 0

C8_Witness ==
    /\ last.op = "check"
    /\ \A r \in last.visited : last.fault[r] = "none"
    /\ \E r \in last.visited : ~store[r].roster.found
    /\ last.ret = 0

\* C9: with the operators parameter present and no hard error in either
\* fetch, check_user reports "is set" exactly when the username is one of
\* the comma-separated entries of the value, and the call returns 0 in both
\* cases, with or without a stored SSH key.
C9_CheckMembership ==
    last.op = "check" =>
        /\ \A r \in last.visited :
              (store[r].roster.found /\ last.fault[r] = "none") =>
                  /\ last.report[r] \in {"is set", "is not set"}
                  /\ last.report[r] = "is set"
                        <=> IsEntry(last.username, store[r].roster.value)
        /\ (NoHardFailure /\ \A r \in ClientSet : store[r].roster.found)
              => last.ret = 0

C9_Witness ==
    /\ last.op = "check"
    /\ NoHardFailure
    /\ store["us-east-1"].roster.found
    /\ last.report["us-east-1"] = "is set"
    /\ Len(RosterUsers(store["us-east-1"].roster)) >= 2
    /\ last.ret = 0

\* C10: after remove_user(u, full=True) with no hard store error the SSH
\* key of u is gone and u is not listed; after remove_user(u, full=False)
\* u is not listed and the SSH key parameter of u is as it was (in every
\* region the call worked on).
C10_FullRemoval ==
    (last.op = "remove" /\ NoHardFailure) =>
        \A r \in last.visited :
            /\ ~IsMember(last.username, store[r].roster)
            /\ last.flag => ~store[r].keys[last.username].found
            /\ ~last.flag => store[r].keys[last.username] = prev[r].keys[last.username]

C10_Witness ==
    /\ last.op = "remove" /\ ~last.flag /\ NoHardFailure
    /\ IsMember(last.username, prev["us-east-1"].roster)
    /\ ~IsMember(last.username, store["us-east-1"].roster)
    /\ store["us-east-1"].keys[last.username].found

\* a hard store error was raised in region r during the last operation
HardErrorIn(r) == r \in last.visited /\ last.fault[r] # "none"

\* C11: every call of add_user, remove_user and check_user completes by
\* returning the status 0 or 1; no exception leaves the call.
C11_NoCrash ==
    last.op # "none" => (last.exc = "none" /\ last.ret \in {0, 1})

\* C12: add_user returns 1 exactly when the SSH key write or the operators
\* read/write of some region raised a hard store error; without a hard
\* error (ParameterAlreadyExists included) it returns 0.
C12_AddStatus ==
    last.op = "add" =>
        /\ last.ret = 1 <=> \E r \in ClientSet : HardErrorIn(r)
        /\ (\A r \in ClientSet : ~HardErrorIn(r)) => last.ret = 0

\* C13: remove_user returns 0 unless a hard store error occurred in the
\* SSH key delete or the operators reconciliation; a missing SSH key or a
\* missing operators parameter alone never makes the result non-zero.
C13_RemoveStatus ==
    (last.op = "remove" /\ \A r \in ClientSet : ~HardErrorIn(r))
        => last.ret = 0

\* C14: when an operation hits a hard store error in one region of the
\* list, it is still attempted in every later region of the list.
C14_LaterRegionsAttempted ==
    last.op # "none" =>
        \A i, j \in 1..Len(clients) :
            (i < j /\ HardErrorIn(clients[i])) => clients[j] \in last.visited

\* both invocations returned 0, read the same operators snapshot, are about
\* different usernames, and p wrote the operators parameter before q
LostUpdateCase(p, q) ==
    /\ p # q
    /\ procs[p].pc = "done" /\ procs[q].pc = "done"
    /\ procs[p].ret = 0 /\ procs[q].ret = 0
    /\ procs[p].snapshot = procs[q].snapshot
    /\ procs[p].username # procs[q].username
    /\ 0 < procs[p].wseq /\ procs[p].wseq < procs[q].wseq

\* C16: whenever two concurrent invocations on one region read the same
\* operators snapshot and both return 0, the stored operators value is the
\* snapshot with the later writer's change only; the earlier writer's change
\* is lost (a user it added is not listed, a user it removed is listed).
C16_LostUpdate ==
    \A p, q \in Procs :
        LostUpdateCase(p, q) =>
            LET S == RosterUsers(procs[q].snapshot)
                final == RosterUsers(store[RaceRegion].roster)
            IN  /\ final = IF procs[q].op = "add"
                           THEN Append(S, procs[q].username)
                           ELSE Without(S, procs[q].username)
                /\ procs[p].op = "add" => ~ListIn(procs[p].username, final)
                /\ procs[p].op = "remove" => ListIn(procs[p].username, final)

\* two concurrent add_user calls for different usernames, both returned 0,
\* only the later writer's username is listed
C16_Witness ==
    \E p, q \in Procs :
        /\ LostUpdateCase(p, q)
        /\ procs[p].op = "add" /\ procs[q].op = "add"
        /\ ~IsMember(procs[p].username, store[RaceRegion].roster)
        /\ IsMember(procs[q].username, store[RaceRegion].roster)

\* C17: when an SSH key parameter of u exists, add_user without overwrite
\* leaves its value unchanged and still reconciles the operators list, and
\* add_user with overwrite replaces the value by the given key; when none
\* exists, both create it with the given key.
C17_OverwriteSemantics ==
    last.op = "add" =>
        \A r \in last.visited :
            last.fault[r] # "cred" =>
                LET before == prev[r].keys[last.username]
                    after == store[r].keys[last.username]
                    written == [found |-> TRUE, value |-> last.ssh_key]
                IN  /\ (before.found /\ ~last.flag) =>
                          (after = before /\ r \in last.reconciled)
                    /\ (before.found /\ last.flag) => after = written
                    /\ ~before.found => after = written

C17_Witness ==
    /\ last.op = "add" /\ last.flag /\ NoHardFailure
    /\ prev["us-east-1"].keys[last.username].found
    /\ prev["us-east-1"].keys[last.username].value # last.ssh_key
    /\ store["us-east-1"].keys[last.username].value = last.ssh_key

\* C18: whenever add_user returns 0, u is listed and has an SSH key stored
\* in every region of the list; whenever remove_user returns 0, u is listed
\* in no region of the list.
C18_SuccessPostconditions ==
    /\ (last.op = "add" /\ last.ret = 0) =>
          \A r \in ClientSet : /\ IsMember(last.username, store[r].roster)
                               /\ store[r].keys[last.username].found
    /\ (last.op = "remove" /\ last.ret = 0) =>
          \A r \in ClientSet : ~IsMember(last.username, store[r].roster)

C18_Witness ==
    /\ last.op = "remove" /\ last.ret = 0
    /\ Len(clients) = 2
    /\ \A r \in ClientSet : IsMember(last.username, prev[r].roster)
    /\ \A r \in ClientSet : ~IsMember(last.username, store[r].roster)

C20_FrameOtherUsers ==
    Mutating =>
        \A r \in AllRegions :
            /\ Without(RosterUsers(store[r].roster), last.username)
                  = Without(RosterUsers(prev[r].roster), last.username)
            /\ \A v \in Usernames \ {last.username} :
                  store[r].keys[v] = prev[r].keys[v]

\* the middle one of three listed names was removed
C20_Witness ==
    /\ last.op = "remove"
    /\ Len(RosterUsers(prev["us-east-1"].roster)) = 3
    /\ RosterUsers(prev["us-east-1"].roster)[2] = last.username
    /\ Len(RosterUsers(store["us-east-1"].roster)) = 2

C21_CheckReadOnly ==
    last.op = "check" => store = prev

\* a check of a listed user with a stored SSH key, over two regions
C21_Witness ==
    /\ last.op = "check"
    /\ Len(clients) = 2
    /\ last.visited = ClientSet
    /\ IsMember(last.username, prev["us-east-2"].roster)
    /\ prev["us-east-2"].keys[last.username].found
    /\ store = prev

\* C22: under every interleaving of the steps of concurrent add_user and
\* remove_user invocations on one region, started from a duplicate-free or
\* absent operators value, every stored operators value lists each username
\* at most once.
C22_NoDuplicatesConcurrent ==
    \A u \in Usernames :
        Count(u, RosterUsers(store[RaceRegion].roster)) <= 1

\* two concurrent add_user calls for the same new username both read the
\* operators value without it and both wrote
C22_Witness ==
    \E p, q \in Procs :
        /\ p # q
        /\ procs[p].pc = "done" /\ procs[q].pc = "done"
        /\ procs[p].op = "add" /\ procs[q].op = "add"
        /\ procs[p].username = procs[q].username
        /\ procs[p].snapshot = procs[q].snapshot
        /\ ~IsMember(procs[p].username, procs[p].snapshot)
        /\ 0 < procs[p].wseq /\ procs[p].wseq < procs[q].wseq
        /\ Count(procs[p].username, RosterUsers(store[RaceRegion].roster)) = 1

====
